---- MODULE Spec2Model ----
(***************************************************************************)
(* A model of the wcf-onebot bridge: the message converter of              *)
(* src/wcf_onebot/models.py (MessageConverter), its media cache            *)
(* (FileManager) and the identity derivation (_convert_sender_id).         *)
(*                                                                         *)
(* Conventions of the model                                                *)
(*  - A Python str is a sequence of tokens.  The delimiters the code       *)
(*    splits on ("/", ".", ",", the double quote, "filename=", the XML      *)
(*    tags) are tokens of their own, so that split, splitext and the       *)
(*    regular expressions are computed the way the code computes them.     *)
(*    An identity (sender, roomid, wxid), which the code hashes, is the    *)
(*    sequence of its UTF-8 bytes.                                         *)
(*  - An Optional value is <<>> for None and <<v>> for the value v.        *)
(*  - The integers checked here are 32-bit signed, and the derived         *)
(*    identifiers range up to 2^32 - 1, so an identifier n is written      *)
(*    <<n \div 2^16, n % 2^16>>.                                           *)
(*  - The Chinese string literals of the source are written as English     *)
(*    glosses; each is mapped to its source line.                          *)
(*  - Time is counted in ticks, TicksPerSecond to the second, from the     *)
(*    start of the process.                                                *)
(***************************************************************************)
EXTENDS Integers, Sequences, FiniteSets, TLC

VARIABLES
    now,             \* the wall clock, in ticks
    files,           \* the storage directory: file name -> [mtime, body]
    http_gets,       \* the number of HTTP GET requests issued by download_file
    calls,           \* download_file calls suspended in client.get(url)
    dl_log,          \* the completed calls made on the cache directly, oldest first
    conv,            \* the conversion (wcf_to_onebot) in progress or just finished
    config_self_id,  \* Config._self_id
    cleanup_task,    \* FileManager._cleanup_task: None or the id of a task
    tasks,           \* the sweep tasks created so far: id -> [state, wake]
    last_pass,       \* the last pass of _clean_old_files: its task and its error
    server,          \* the FastAPI application: its lifecycle and its /ws socket
    req,             \* the inbound event a transport endpoint is handling
    ob               \* the OneBotClient, its tasks and its server

vars == <<now, files, http_gets, calls, dl_log, conv, config_self_id,
          cleanup_task, tasks, last_pass, server, req, ob>>

\* the state of the transport endpoints, and of the forwarding client
server_vars == <<server, req>>
client_vars == <<ob>>

-----------------------------------------------------------------------------
(* Bounds of the model *)

TicksPerSecond == 2
MaxTicks == 1        \* ticks past the full hour
MaxHours == 1        \* hours past the full day
MaxDays == 1
MaxCalls == 2        \* download_file calls made on the cache directly, per run
MaxFetches == 1      \* conversions that fetch an attachment, per run
MaxTasks == 2        \* sweep tasks created per run
MaxConnects == 1     \* connect calls made on the client directly, in flight
MaxHeartbeats == 2   \* heartbeat tasks alive (counted up to this number)
MaxLoops == 2        \* reconnect loops running unheld (counted up to this number)
MaxSends == 2        \* send_message calls in flight

-----------------------------------------------------------------------------
(* Optional values and strings *)

None == <<>>
Some(v) == <<v>>
\* Python truthiness of an Optional[str]: None and "" are false
Truthy(o) == o # None /\ o[1] # <<>>
\* str(o) as an f-string renders it
StrOf(o) == IF o = None THEN <<"None">> ELSE o[1]

\* the index of the first occurrence of tok in s at or after position from, or 0
RECURSIVE IndexFrom(_, _, _)
IndexFrom(s, tok, from) ==
    IF from > Len(s) THEN 0
    ELSE IF s[from] = tok THEN from
    ELSE IndexFrom(s, tok, from + 1)

\* the index of the last occurrence of tok in s at or before position upto, or 0
RECURSIVE LastIndex(_, _, _)
LastIndex(s, tok, upto) ==
    IF upto < 1 THEN 0
    ELSE IF s[upto] = tok THEN upto
    ELSE LastIndex(s, tok, upto - 1)

\* s.split(tok)[-1]
SplitLast(s, tok) == SubSeq(s, LastIndex(s, tok, Len(s)) + 1, Len(s))

\* s.split(tok), as a sequence of strings
RECURSIVE Split(_, _)
Split(s, tok) ==
    LET i == IndexFrom(s, tok, 1)
    IN  IF i = 0 THEN <<s>>
        ELSE <<SubSeq(s, 1, i - 1)>> \o Split(SubSeq(s, i + 1, Len(s)), tok)

\* s.strip(tok)
RECURSIVE Strip(_, _)
Strip(s, tok) ==
    IF s = <<>> THEN s
    ELSE IF s[1] = tok THEN Strip(Tail(s), tok)
    ELSE IF s[Len(s)] = tok THEN Strip(SubSeq(s, 1, Len(s) - 1), tok)
    ELSE s

\* os.path.splitext(s): the extension starts at the last dot of the last
\* path component, unless only dots precede it there
RECURSIVE AllDots(_, _, _)
AllDots(s, from, to) ==
    IF from > to THEN TRUE
    ELSE s[from] = "." /\ AllDots(s, from + 1, to)

splitext(s) ==
    LET sep == LastIndex(s, "/", Len(s))
        dot == LastIndex(s, ".", Len(s))
    IN  IF dot > sep /\ ~AllDots(s, sep + 1, dot)
        THEN <<SubSeq(s, 1, dot - 1), SubSeq(s, dot, Len(s))>>
        ELSE <<s, <<>>>>

-----------------------------------------------------------------------------
(* hashlib.md5 on one block (a message below 56 bytes), over 32-bit words   *)
(* written <<high 16 bits, low 16 bits>>                                    *)

Pow2(n) == <<1, 2, 4, 8, 16, 32, 64, 128, 256, 512, 1024, 2048, 4096, 8192,
             16384, 32768, 65536>>[n + 1]

\* the bits of a 4-bit number, lowest first
Bits4(x) == <<x % 2, (x \div 2) % 2, (x \div 4) % 2, (x \div 8) % 2>>

And4(x, y) ==
    LET p == Bits4(x)
        q == Bits4(y)
    IN  (p[1] * q[1]) + (2 * p[2] * q[2]) + (4 * p[3] * q[3]) + (8 * p[4] * q[4])

Xor4(x, y) ==
    LET p == Bits4(x)
        q == Bits4(y)
    IN  ((p[1] + q[1]) % 2) + (2 * ((p[2] + q[2]) % 2))
        + (4 * ((p[3] + q[3]) % 2)) + (8 * ((p[4] + q[4]) % 2))

\* bitwise and, xor, not, or of 16-bit numbers
And16(a, b) ==
    And4(a % 16, b % 16) + (16 * And4((a \div 16) % 16, (b \div 16) % 16))
    + (256 * And4((a \div 256) % 16, (b \div 256) % 16))
    + (4096 * And4(a \div 4096, b \div 4096))

Xor16(a, b) ==
    Xor4(a % 16, b % 16) + (16 * Xor4((a \div 16) % 16, (b \div 16) % 16))
    + (256 * Xor4((a \div 256) % 16, (b \div 256) % 16))
    + (4096 * Xor4(a \div 4096, b \div 4096))

Not16(a) == 65535 - a
Or16(a, b) == a + b - And16(a, b)

WAnd(a, b) == <<And16(a[1], b[1]), And16(a[2], b[2])>>
WOr(a, b) == <<Or16(a[1], b[1]), Or16(a[2], b[2])>>
WXor(a, b) == <<Xor16(a[1], b[1]), Xor16(a[2], b[2])>>
WNot(a) == <<Not16(a[1]), Not16(a[2])>>
WAdd(a, b) ==
    LET lo == a[2] + b[2]
    IN  <<(a[1] + b[1] + (lo \div 65536)) % 65536, lo % 65536>>

WRotl(a, s) ==
    LET sw == IF s >= 16 THEN <<a[2], a[1]>> ELSE a
        p == Pow2(s % 16)
        q == Pow2(16 - (s % 16))
    IN  <<((sw[1] * p) % 65536) + (sw[2] \div q),
          ((sw[2] * p) % 65536) + (sw[1] \div q)>>

\* floor(2^32 * abs(sin(i))) for i = 1..64
Md5K == <<
    <<55146,42104>>, <<59591,46934>>, <<9248,28891>>, <<49597,52974>>,
    <<62844,4015>>, <<18311,50730>>, <<43056,17939>>, <<64838,38145>>,
    <<27008,39128>>, <<35652,63407>>, <<65535,23473>>, <<35164,55230>>,
    <<27536,4386>>, <<64920,29075>>, <<42617,17294>>, <<18868,2081>>,
    <<63006,9570>>, <<49216,45888>>, <<9822,23121>>, <<59830,51114>>,
    <<54831,4189>>, <<580,5203>>, <<55457,59009>>, <<59347,64456>>,
    <<8673,52710>>, <<49975,2006>>, <<62677,3463>>, <<17754,5357>>,
    <<43491,59653>>, <<64751,41976>>, <<26479,729>>, <<36138,19594>>,
    <<65530,14658>>, <<34673,63105>>, <<28061,24866>>, <<64997,14348>>,
    <<42174,59972>>, <<19422,53161>>, <<63163,19296>>, <<48831,48240>>,
    <<10395,32454>>, <<60065,10234>>, <<54511,12421>>, <<1160,7429>>,
    <<55764,53305>>, <<59099,39397>>, <<8098,31992>>, <<50348,22117>>,
    <<62505,8772>>, <<17194,65431>>, <<43924,9127>>, <<64659,41017>>,
    <<25947,22979>>, <<36620,52370>>, <<65519,62589>>, <<34180,24017>>,
    <<28584,32335>>, <<65068,59104>>, <<41729,17172>>, <<19976,4513>>,
    <<63315,32386>>, <<48442,62005>>, <<10967,53947>>, <<60294,54161>> >>

Md5S == <<7,12,17,22, 7,12,17,22, 7,12,17,22, 7,12,17,22,
          5,9,14,20, 5,9,14,20, 5,9,14,20, 5,9,14,20,
          4,11,16,23, 4,11,16,23, 4,11,16,23, 4,11,16,23,
          6,10,15,21, 6,10,15,21, 6,10,15,21, 6,10,15,21>>

Md5Init == << <<26437,8961>>, <<61389,43913>>, <<39098,56574>>, <<4146,21622>> >>

\* the padded block: the bytes, 0x80, zeros, the bit length little-endian
Md5Block(bytes) ==
    [i \in 1..64 |->
        IF i <= Len(bytes) THEN bytes[i]
        ELSE IF i = Len(bytes) + 1 THEN 128
        ELSE IF i = 57 THEN (8 * Len(bytes)) % 256
        ELSE IF i = 58 THEN (8 * Len(bytes)) \div 256
        ELSE 0]

\* the g-th little-endian word of the block
Md5Word(blk, g) ==
    <<blk[4 * g + 3] + 256 * blk[4 * g + 4], blk[4 * g + 1] + 256 * blk[4 * g + 2]>>

Md5Step(st, i, blk) ==
    LET B == st[2]
        C == st[3]
        D == st[4]
        F == IF i < 16 THEN WOr(WAnd(B, C), WAnd(WNot(B), D))
             ELSE IF i < 32 THEN WOr(WAnd(D, B), WAnd(WNot(D), C))
             ELSE IF i < 48 THEN WXor(B, WXor(C, D))
             ELSE WXor(C, WOr(B, WNot(D)))
        g == IF i < 16 THEN i
             ELSE IF i < 32 THEN (5 * i + 1) % 16
             ELSE IF i < 48 THEN (3 * i + 5) % 16
             ELSE (7 * i) % 16
        sum == WAdd(WAdd(WAdd(st[1], F), Md5K[i + 1]), Md5Word(blk, g))
    IN  <<D, WAdd(B, WRotl(sum, Md5S[i + 1])), B, C>>

\* the rounds lo .. hi - 1 applied to st
RECURSIVE Md5Rounds(_, _, _, _)
Md5Rounds(st, lo, hi, blk) ==
    IF hi = lo + 1 THEN Md5Step(st, lo, blk)
    ELSE LET mid == (lo + hi) \div 2
             half == Md5Rounds(st, lo, mid, blk)
         IN  IF half[2][1] >= 0 THEN Md5Rounds(half, mid, hi, blk) ELSE half

\* int(hashlib.md5(bytes).hexdigest()[:8], 16): the first four bytes of the
\* digest are the first state word in little-endian order, and the hex
\* string is read back big-endian
Md5Hex8(bytes) ==
    LET a == WAdd(Md5Init[1], Md5Rounds(Md5Init, 0, 64, Md5Block(bytes))[1])
    IN  <<((a[2] % 256) * 256) + (a[2] \div 256),
          ((a[1] % 256) * 256) + (a[1] \div 256)>>

-----------------------------------------------------------------------------
(* The identities of the model, and str.encode() *)

Alice == <<"a", "l", "i", "c", "e">>
Room == <<"r", "o", "o", "m">>
BotWxid == <<"w", "x", "i", "d", "_", "b", "o", "t">>
Identities == {Alice, Room, BotWxid}

\* the UTF-8 code of each character the identities are written with
Ord ==
    [c \in {"a", "b", "c", "d", "e", "i", "l", "m", "o", "r", "t", "w", "x", "_"} |->
        CASE c = "a" -> 97  [] c = "b" -> 98  [] c = "c" -> 99  [] c = "d" -> 100
          [] c = "e" -> 101 [] c = "i" -> 105 [] c = "l" -> 108 [] c = "m" -> 109
          [] c = "o" -> 111 [] c = "r" -> 114 [] c = "t" -> 116 [] c = "w" -> 119
          [] c = "x" -> 120 [] c = "_" -> 95]

encode(s) == [i \in 1..Len(s) |-> Ord[s[i]]]

\* the hash of each identity of the model, computed once
Md5Table == [s \in Identities |-> Md5Hex8(encode(s))]

Zero == <<0, 0>>

\* MessageConverter._convert_sender_id; o is an Optional[str]
_convert_sender_id(o) ==
    IF ~Truthy(o) THEN Zero ELSE Md5Table[o[1]]

-----------------------------------------------------------------------------
(* WeChatMsgType *)

TEXT == 1
IMAGE == 3
VOICE == 34
VIDEO == 43
FILE == 49
EMOJI == 47
LOCATION == 48
APP == 49
SYSTEM == 10000

\* the members in definition order; a later member with the value of an
\* earlier one is an alias of it (IntEnum)
WeChatMsgTypeMembers ==
    << <<"TEXT", TEXT>>, <<"IMAGE", IMAGE>>, <<"VOICE", VOICE>>,
       <<"VIDEO", VIDEO>>, <<"FILE", FILE>>, <<"EMOJI", EMOJI>>,
       <<"LOCATION", LOCATION>>, <<"APP", APP>>, <<"SYSTEM", SYSTEM>> >>

WeChatMsgTypeValues == {WeChatMsgTypeMembers[i][2] : i \in DOMAIN WeChatMsgTypeMembers}

\* the .name of the member with value v: the first one defined with it
RECURSIVE MemberName(_, _)
MemberName(v, i) ==
    IF WeChatMsgTypeMembers[i][2] = v THEN WeChatMsgTypeMembers[i][1]
    ELSE MemberName(v, i + 1)

\* WeChatMsgType(v): the member, or ValueError
WeChatMsgType(v) ==
    IF v \in WeChatMsgTypeValues
    THEN [exc |-> None, val |-> v]
    ELSE [exc |-> Some(<<ToString(v), " is not a valid WeChatMsgType">>), val |-> v]

\* WeChatMsgType.get_type_name
get_type_name(type_id) ==
    LET m == WeChatMsgType(type_id)
    IN  IF m.exc = None THEN <<MemberName(type_id, 1)>>
        ELSE <<"unknown type(", ToString(type_id), ")">>

-----------------------------------------------------------------------------
(* The markup extractor *)

\* re.search(open (.*?) close, xml): the text between the first open tag and
\* the first close tag after it, or None (the markup of the model holds no
\* newline)
SearchTag(xml, open, close) ==
    LET i == IndexFrom(xml, open, 1)
        j == IF i = 0 THEN 0 ELSE IndexFrom(xml, close, i + 1)
    IN  IF j = 0 THEN None ELSE Some(SubSeq(xml, i + 1, j - 1))

\* MessageConverter._extract_at_users
_extract_at_users(xml) ==
    LET match == SearchTag(xml, "<atuserlist>", "</atuserlist>")
    IN  IF match # None
        THEN SelectSeq(Split(match[1], ","), LAMBDA user : user # <<>>)
        ELSE <<>>

\* MessageConverter._extract_app_message_info
_extract_app_message_info(xml) ==
    LET title == SearchTag(xml, "<title>", "</title>")
        desc == SearchTag(xml, "<des>", "</des>")
        url == SearchTag(xml, "<url>", "</url>")
    IN  [title |-> IF title # None THEN title[1] ELSE <<>>,
         description |-> IF desc # None THEN desc[1] ELSE <<>>,
         url |-> IF url # None THEN url[1] ELSE <<>>]

-----------------------------------------------------------------------------
(* Config *)

\* Config.self_id (the getter): the stored wxid, or the integer 0, which is
\* written Some(<<>>): not None, and false
Config_self_id(stored) == IF stored # None THEN stored ELSE Some(<<>>)

\* Config.storage_path, with the separator Path puts after it
storage_path == <<"storage", "/">>

-----------------------------------------------------------------------------
(* FileManager *)

RetentionHours == 24
SweepSleepSeconds == 3600

HourTicks == 3600 * TicksPerSecond
DayTicks == 24 * HourTicks
RetentionTicks == RetentionHours * HourTicks
SweepSleepTicks == SweepSleepSeconds * TicksPerSecond

\* the directory with entry k written
Put(dir, k, v) == [x \in DOMAIN dir \cup {k} |-> IF x = k THEN v ELSE dir[x]]
\* the directory without the entries of gone
Without(dir, gone) == [x \in DOMAIN dir \ gone |-> dir[x]]

\* what is left in a file whose write failed after it was opened
Partial == <<"(partial)">>

\* FileManager._get_filename_from_response; cd is the content-disposition
\* header of the response, None when it has none
_get_filename_from_response(cd, url) ==
    IF cd # None /\ IndexFrom(cd[1], "filename=", 1) # 0
    THEN Strip(SplitLast(cd[1], "filename="), "\"")
    ELSE IF SplitLast(url, "/") # <<>> THEN SplitLast(url, "/")
    ELSE <<"unknown_file">>

\* datetime.now().strftime('%Y%m%d_%H%M%S'): the time to the second
strftime(t) == <<ToString(t \div TicksPerSecond)>>

\* FileManager._generate_unique_filename, at time t
_generate_unique_filename(original_name, t) ==
    LET parts == splitext(original_name)
    IN  parts[1] \o <<"_">> \o strftime(t) \o parts[2]

\* _is_file_valid with the comparison of the age reversed
_is_file_valid_reversed(file_path, dir, t) ==
    IF file_path \notin DOMAIN dir THEN FALSE
    ELSE t - dir[file_path].mtime > RetentionTicks

\* FileManager._is_file_valid, at time t
_is_file_valid(file_path, dir, t) ==
    IF file_path \notin DOMAIN dir THEN FALSE
    ELSE t - dir[file_path].mtime < RetentionTicks

\* httpx: Response.is_success
is_success(status) == status >= 200 /\ status <= 299

\* download_file without its except clause: a failure is raised to the caller
download_file_raising(url, filename, out, t, dir) ==
    LET name == IF ~Truthy(filename)
                THEN _get_filename_from_response(out.cd, url)
                ELSE filename[1]
        file_path == storage_path \o _generate_unique_filename(name, t)
    IN  IF out.net # "ok" \/ ~is_success(out.status) \/ out.io = "open_error"
        THEN [exc |-> Some(<<"download error">>), val |-> None, dir |-> dir]
        ELSE IF out.io = "write_error"
        THEN [exc |-> Some(<<"download error">>), val |-> None,
              dir |-> Put(dir, file_path, [mtime |-> t, body |-> Partial])]
        ELSE [exc |-> None, val |-> Some(file_path),
              dir |-> Put(dir, file_path, [mtime |-> t, body |-> url])]

\* FileManager.download_file from the point where client.get(url) returns,
\* at time t: out is what the network and the disk do ([net, status, cd, io]).
\* Returns what the call returns (val), what it raises (exc) and the directory.
download_file(url, filename, out, t, dir) ==
    LET name == IF ~Truthy(filename)
                THEN _get_filename_from_response(out.cd, url)
                ELSE filename[1]
        file_path == storage_path \o _generate_unique_filename(name, t)
    IN  IF out.net # "ok" \/ ~is_success(out.status) \/ out.io = "open_error"
        THEN [exc |-> None, val |-> None, dir |-> dir]
        ELSE IF out.io = "write_error"
        THEN [exc |-> None, val |-> None,
              dir |-> Put(dir, file_path, [mtime |-> t, body |-> Partial])]
        ELSE [exc |-> None, val |-> Some(file_path),
              dir |-> Put(dir, file_path, [mtime |-> t, body |-> url])]

\* One pass of the loop of FileManager._clean_old_files over the entries in
\* the order glob yields them, from position i on, at time t; unlink raises
\* for the entries of busy (an entry another process holds open, or one
\* that is a directory).  Returns the directory, and the entry whose unlink
\* raised and sent the pass to the except clause (None when none did).
RECURSIVE clean_pass(_, _, _, _, _)
clean_pass(order, i, dir, busy, t) ==
    IF i > Len(order) THEN [dir |-> dir, exc |-> None]
    ELSE IF ~_is_file_valid(order[i], dir, t)
    THEN IF order[i] \in busy
         THEN [dir |-> dir, exc |-> Some(order[i])]
         ELSE clean_pass(order, i + 1, Without(dir, {order[i]}), busy, t)
    ELSE clean_pass(order, i + 1, dir, busy, t)

-----------------------------------------------------------------------------
(* MessageConverter *)

\* the result of download_file where _parse_message_content does not call it
NotFetched == [exc |-> None, val |-> None]

\* whether _parse_message_content calls download_file for msg
NeedsFetch(msg) ==
    /\ WeChatMsgType(msg.type).exc = None
    /\ msg.type \in {IMAGE, VOICE, VIDEO, FILE}
    /\ Truthy(msg.file_url)

\* the file name it passes to download_file
FetchName(msg) ==
    IF msg.type = FILE THEN msg.file_name ELSE None

ImageFailed == <<"[image download failed]">>
VoiceFailed == <<"[voice download failed]">>
VideoFailed == <<"[video download failed]">>
FileFailed == <<"[file download failed]">>

ParseFailed(e) == <<"[message parse failed: ">> \o e \o <<"]">>
Unsupported(name) == <<"[unsupported message type: ">> \o name \o <<"]">>

AppSummary(app_info) ==
    <<"[app message]", "\n", "title: ">> \o app_info.title
    \o <<"\n", "description: ">> \o app_info.description
    \o <<"\n", "link: ">> \o app_info.url

\* one of the four attachment branches of _parse_message_content: the tag with
\* the local path, or the placeholder; what download_file raises is caught by
\* the except clause of _parse_message_content
media_content(msg, fetched, tag, failed, tail) ==
    IF Truthy(msg.file_url) /\ fetched.exc # None
    THEN [exc |-> None, val |-> ParseFailed(fetched.exc[1])]
    ELSE IF Truthy(msg.file_url) /\ fetched.val # None
    THEN [exc |-> None,
          val |-> <<tag, "file:///">> \o fetched.val[1] \o tail \o <<"]">>]
    ELSE [exc |-> None, val |-> failed]

\* _parse_message_content without its except clause: the ValueError of
\* WeChatMsgType(msg.type) is raised to the caller
_parse_message_content_uncaught(msg, fetched) ==
    LET msg_type == WeChatMsgType(msg.type)
    IN  IF msg_type.exc # None
        THEN [exc |-> msg_type.exc, val |-> <<>>]
        ELSE IF msg_type.val = TEXT
        THEN [exc |-> None, val |-> msg.content]
        ELSE IF msg_type.val = IMAGE
        THEN media_content(msg, fetched, "[CQ:image,file=", ImageFailed, <<>>)
        ELSE IF msg_type.val = VOICE
        THEN media_content(msg, fetched, "[CQ:record,file=", VoiceFailed, <<>>)
        ELSE IF msg_type.val = VIDEO
        THEN media_content(msg, fetched, "[CQ:video,file=", VideoFailed, <<>>)
        ELSE IF msg_type.val = FILE
        THEN media_content(msg, fetched, "[CQ:file,file=", FileFailed,
                           <<",name=">> \o StrOf(msg.file_name))
        ELSE IF msg_type.val = APP
        THEN [exc |-> None,
              val |-> AppSummary(_extract_app_message_info(msg.xml))]
        ELSE [exc |-> None, val |-> Unsupported(get_type_name(msg_type.val))]

\* MessageConverter._parse_message_content; fetched is what download_file
\* returned or raised where the branch taken calls it
_parse_message_content(msg, fetched) ==
    LET msg_type == WeChatMsgType(msg.type)
    IN  IF msg_type.exc # None
        THEN [exc |-> None, val |-> ParseFailed(msg_type.exc[1])]
        ELSE IF msg_type.val = TEXT
        THEN [exc |-> None, val |-> msg.content]
        ELSE IF msg_type.val = IMAGE
        THEN media_content(msg, fetched, "[CQ:image,file=", ImageFailed, <<>>)
        ELSE IF msg_type.val = VOICE
        THEN media_content(msg, fetched, "[CQ:record,file=", VoiceFailed, <<>>)
        ELSE IF msg_type.val = VIDEO
        THEN media_content(msg, fetched, "[CQ:video,file=", VideoFailed, <<>>)
        ELSE IF msg_type.val = FILE
        THEN media_content(msg, fetched, "[CQ:file,file=", FileFailed,
                           <<",name=">> \o StrOf(msg.file_name))
        ELSE IF msg_type.val = APP
        THEN [exc |-> None,
              val |-> AppSummary(_extract_app_message_info(msg.xml))]
        ELSE [exc |-> None, val |-> Unsupported(get_type_name(msg_type.val))]

\* MessageConverter._generate_message_id, at time t
_generate_message_id(t) == (t * 1000) \div TicksPerSecond

\* OneBotMessage(...): the fields wcf_to_onebot gives and the defaults
OneBotMessage(message_type, message_id, user_id, message, raw_message, group_id, t, stored) ==
    [post_type |-> "message",
     time |-> t \div TicksPerSecond,
     self_id |-> _convert_sender_id(Config_self_id(stored)),
     message_type |-> message_type,
     sub_type |-> "normal",
     message_id |-> message_id,
     user_id |-> user_id,
     message |-> message,
     raw_message |-> raw_message,
     font |-> 0,
     sender |-> <<>>,
     group_id |-> group_id,
     message_seq |-> None,
     anonymous |-> None]

\* wcf_to_onebot deriving group_id from the sender instead of the room
wcf_to_onebot_group_of_sender(msg, fetched, t, stored) ==
    LET parsed_content == _parse_message_content(msg, fetched)
    IN  IF parsed_content.exc # None
        THEN [exc |-> parsed_content.exc, val |-> None]
        ELSE [exc |-> None,
              val |-> Some(OneBotMessage(
                  IF msg.is_group THEN "group" ELSE "private",
                  _generate_message_id(t),
                  _convert_sender_id(Some(msg.sender)),
                  parsed_content.val,
                  msg.content,
                  IF msg.is_group THEN Some(_convert_sender_id(Some(msg.sender))) ELSE None,
                  t, stored))]

\* wcf_to_onebot taking raw_message from the markup instead of the content
wcf_to_onebot_raw_of_markup(msg, fetched, t, stored) ==
    LET parsed_content == _parse_message_content(msg, fetched)
    IN  IF parsed_content.exc # None
        THEN [exc |-> parsed_content.exc, val |-> None]
        ELSE [exc |-> None,
              val |-> Some(OneBotMessage(
                  IF msg.is_group THEN "group" ELSE "private",
                  _generate_message_id(t),
                  _convert_sender_id(Some(msg.sender)),
                  parsed_content.val,
                  msg.xml,
                  IF msg.is_group THEN Some(_convert_sender_id(msg.roomid)) ELSE None,
                  t, stored))]

\* MessageConverter.wcf_to_onebot from the point where the content is
\* parsed, at time t: the message it returns (val) or what it raises (exc)
wcf_to_onebot(msg, fetched, t, stored) ==
    LET parsed_content == _parse_message_content(msg, fetched)
    IN  IF parsed_content.exc # None
        THEN [exc |-> parsed_content.exc, val |-> None]
        ELSE [exc |-> None,
              val |-> Some(OneBotMessage(
                  IF msg.is_group THEN "group" ELSE "private",
                  _generate_message_id(t),
                  _convert_sender_id(Some(msg.sender)),
                  parsed_content.val,
                  msg.content,
                  IF msg.is_group THEN Some(_convert_sender_id(msg.roomid)) ELSE None,
                  t, stored))]

-----------------------------------------------------------------------------
(* The inputs of the model *)

Url1 == <<"http:", "/", "/", "x", "/", "y", ".", "jpg">>
Url2 == <<"http:", "/", "/", "x", "/">>
Urls == {Url1, Url2}
Name1 == <<"r", ".", "png">>
Names == {None, Some(Name1)}

Hello == <<"hello">>
Contents == {Hello, <<"@al ", "hi">>}

AppXml == <<"<title>", "T", "</title>", "<des>", "D", "</des>",
            "<url>", "U", "</url>">>
AtXml == <<"<atuserlist>">> \o Alice \o <<",", ",">> \o Room \o <<"</atuserlist>">>
Xmls == {<<>>, AppXml, AtXml}

\* type codes that are no members of WeChatMsgType
UnknownTypes == {999}
TypeCodes == WeChatMsgTypeValues \cup UnknownTypes

\* WCFMessage: the fields the converter reads (thumb, extra, thumb_url and
\* file_size are only logged).  Every type code with every markup and every
\* attachment; and every envelope (content, sender, room, group flag) with a
\* type code of each branch that reads no attachment.
Messages ==
    [type : TypeCodes, content : {Hello}, xml : Xmls,
     sender : {Alice}, roomid : {None}, is_group : {FALSE},
     at_users : {<<>>},
     file_url : {None, Some(<<>>), Some(Url1)}, file_name : Names]
    \cup
    [type : {TEXT, EMOJI} \cup UnknownTypes, content : Contents, xml : {<<>>, AtXml},
     sender : {<<>>, Alice},
     roomid : {None, Some(<<>>), Some(Room)}, is_group : BOOLEAN,
     at_users : {<<>>},
     file_url : {None}, file_name : {None}]

\* what the network and the disk can do to one download: the request fails,
\* the status is no success, or the response arrives (with or without a
\* content-disposition header) and the file is opened and written or not
CdNamed == <<"attachment; ", "filename=", "\"", "z", ".", "bin", "\"">>
Outcomes ==
    {[net |-> "error", status |-> 0, cd |-> None, io |-> "ok"],
     [net |-> "ok", status |-> 404, cd |-> None, io |-> "ok"]}
    \cup [net : {"ok"}, status : {200},
          cd : {None, Some(CdNamed), Some(<<"inline">>)}, io : {"ok"}]
    \cup [net : {"ok"}, status : {200},
          cd : {None}, io : {"open_error", "write_error"}]

\* the orders in which glob can yield the entries of S
Orders(S) ==
    {o \in [1..Cardinality(S) -> S] : \A i, j \in 1..Cardinality(S) : o[i] = o[j] => i = j}

-----------------------------------------------------------------------------
(* The state machine *)

Idle == [pc |-> "idle", msg |-> None, fetched |-> NotFetched, result |-> None]

\* the application before its startup event: boot is what the upstream client
\* reported at startup, ws the state of the /ws socket
ServerInit == [state |-> "created", boot |-> None, ws |-> "closed"]

\* no inbound event is being handled.  Of an event in hand: the endpoint
\* that took it, the decoded WCFMessage, the number of wcf_to_onebot calls
\* and of POST /send_msg requests made for it, whether the conversion and
\* the forward failed, the JSON body posted, and the status of the HTTP
\* response to its sender (None: none yet, or none at all on the socket)
NoReq ==
    [pc |-> "none", endpoint |-> "", msg |-> None, norm_calls |-> 0, posts |-> 0,
     norm_failed |-> FALSE, fwd_failed |-> FALSE, posted |-> None, response |-> None]

\* OneBotClient.__init__, and the OneBot server it talks to.  ws: there is no
\* socket, or the socket self.ws is open or closed; session: the same of
\* self._session; reconnect: there is no _reconnect_task, or where the task
\* is in _reconnect_loop (created, connecting, sleeping) or that it is done;
\* heartbeats: the start_heartbeat tasks that are alive; hb_held: what
\* _heartbeat_task holds (none, a live task, a cancelled task); connects: the
\* connect calls made on the client directly that are suspended in
\* ws_connect; up: the server accepts connections; last: what the client
\* did last; orphans: the _reconnect_loop tasks that run and are not the one
\* _reconnect_task holds; sends: the send_message calls suspended in
\* send_json; after_close: close was called and connect, reconnect or
\* send_message were not called since
OneBotClientInit ==
    [ws |-> "none", connected |-> FALSE, self_id |-> None, session |-> "none",
     reconnect |-> "none", heartbeats |-> 0, hb_held |-> "none", connects |-> 0,
     up |-> FALSE, last |-> "constructed", orphans |-> 0, sends |-> 0,
     after_close |-> FALSE]

Init ==
    /\ now = 0
    /\ files = [x \in {} |-> 0]
    /\ http_gets = 0
    /\ calls = {}
    /\ dl_log = <<>>
    /\ conv = Idle
    /\ config_self_id = None
    /\ cleanup_task = None
    /\ tasks = <<>>
    /\ last_pass = None
    /\ server = ServerInit
    /\ req = NoReq
    /\ ob = OneBotClientInit

\* a download_file call up to its suspension in client.get(url), which it
\* reaches on every path: the id tells it from the other calls in flight,
\* after is the number of direct calls that had returned when it was made,
\* gets the number of GET requests it issued
NewCall(owner, url, filename) ==
    [id |-> http_gets + 1, owner |-> owner, url |-> url, filename |-> filename,
     after |-> Len(dl_log), gets |-> 1]

\* the clock advances by a tick
Tick ==
    /\ (now + 1) % HourTicks <= MaxTicks
    /\ now' = now + 1
    /\ UNCHANGED <<server_vars, client_vars, files, http_gets, calls, dl_log, conv, config_self_id,
                   cleanup_task, tasks, last_pass>>

\* the clock advances by an hour or by a day
TickLong ==
    /\ \E d \in {HourTicks, DayTicks} :
        /\ ((now + d) % DayTicks) \div HourTicks <= MaxHours
        /\ (now + d) \div DayTicks <= MaxDays
        /\ now' = now + d
    /\ UNCHANGED <<server_vars, client_vars, files, http_gets, calls, dl_log, conv, config_self_id,
                   cleanup_task, tasks, last_pass>>

\* server.init_self_id: the upstream client reports the login state and the
\* wxid; the wxid is stored unless either is missing (then it raises)
init_self_id ==
    /\ config_self_id = None
    /\ \E logged_in \in BOOLEAN, wxid \in {None, Some(BotWxid)} :
        config_self_id' = IF logged_in /\ Truthy(wxid) THEN wxid ELSE config_self_id
    /\ UNCHANGED <<server_vars, client_vars, now, files, http_gets, calls, dl_log, conv,
                   cleanup_task, tasks, last_pass>>

\* MessageConverter.wcf_to_onebot(msg) is called: it runs to its return, or
\* to the suspension of download_file in client.get
Convert ==
    /\ conv.pc = "idle"
    /\ \E msg \in Messages :
        IF NeedsFetch(msg)
        THEN /\ http_gets < MaxFetches
             /\ http_gets' = http_gets + 1
             /\ calls' = calls \cup {NewCall("conv", msg.file_url[1], FetchName(msg))}
             /\ conv' = [pc |-> "fetching", msg |-> Some(msg),
                         fetched |-> NotFetched, result |-> None]
        ELSE /\ conv' = [pc |-> "done", msg |-> Some(msg), fetched |-> NotFetched,
                         result |-> Some(wcf_to_onebot(msg, NotFetched, now, config_self_id))]
             /\ UNCHANGED <<http_gets, calls>>
    /\ UNCHANGED <<server_vars, client_vars, now, files, dl_log, config_self_id, cleanup_task, tasks, last_pass>>

\* the caller of wcf_to_onebot takes the result
Return ==
    /\ conv.pc = "done"
    /\ conv' = Idle
    /\ UNCHANGED <<server_vars, client_vars, now, files, http_gets, calls, dl_log, config_self_id,
                   cleanup_task, tasks, last_pass>>

\* FileManager.download_file(url, filename) is called on its own
Download ==
    /\ http_gets < MaxCalls
    /\ \E url \in Urls, filename \in Names :
        calls' = calls \cup {NewCall("api", url, filename)}
    /\ http_gets' = http_gets + 1
    /\ UNCHANGED <<server_vars, client_vars, now, files, dl_log, conv, config_self_id, cleanup_task,
                   tasks, last_pass>>

\* client.get returns or raises in a suspended download_file call, which runs
\* to its end; a call made by the converter resumes wcf_to_onebot, which runs
\* to its end too
DownloadReturns ==
    \E c \in calls, out \in Outcomes :
        LET r == download_file(c.url, c.filename, out, now, files)
            fetched == [exc |-> r.exc, val |-> r.val]
        IN  /\ files' = r.dir
            /\ calls' = calls \ {c}
            /\ dl_log' = IF c.owner = "api"
                         THEN Append(dl_log,
                                [url |-> c.url, filename |-> c.filename,
                                 after |-> c.after, gets |-> c.gets,
                                 result |-> r.val])
                         ELSE dl_log
            /\ conv' = IF c.owner = "conv"
                       THEN [conv EXCEPT
                                !.pc = "done",
                                !.fetched = fetched,
                                !.result = Some(wcf_to_onebot(conv.msg[1], fetched,
                                                              now, config_self_id))]
                       ELSE conv
            /\ UNCHANGED <<server_vars, client_vars, now, http_gets, config_self_id, cleanup_task, tasks, last_pass>>

\* start_cleanup without the test of _cleanup_task
start_cleanup_unguarded ==
    /\ \E loop \in BOOLEAN :
        IF loop
        THEN /\ Len(tasks) < MaxTasks
             /\ tasks' = Append(tasks, [state |-> "pending", wake |-> 0])
             /\ cleanup_task' = Some(Len(tasks) + 1)
        ELSE UNCHANGED <<tasks, cleanup_task>>
    /\ UNCHANGED <<server_vars, client_vars, now, files, http_gets, calls, dl_log, conv, config_self_id, last_pass>>

\* FileManager.start_cleanup; there may be no running event loop
start_cleanup ==
    /\ \E loop \in BOOLEAN :
        IF cleanup_task = None /\ loop
        THEN /\ Len(tasks) < MaxTasks
             /\ tasks' = Append(tasks, [state |-> "pending", wake |-> 0])
             /\ cleanup_task' = Some(Len(tasks) + 1)
        ELSE UNCHANGED <<tasks, cleanup_task>>
    /\ UNCHANGED <<server_vars, client_vars, now, files, http_gets, calls, dl_log, conv, config_self_id, last_pass>>

\* stop_cleanup forgetting the task without cancelling it
stop_cleanup_no_cancel ==
    /\ cleanup_task' = None
    /\ UNCHANGED <<server_vars, client_vars, now, files, http_gets, calls, dl_log, conv, config_self_id,
                   tasks, last_pass>>

\* FileManager.stop_cleanup: the cancelled task ends where it waits
stop_cleanup ==
    /\ IF cleanup_task # None
       THEN /\ tasks' = [tasks EXCEPT ![cleanup_task[1]] =
                                      [state |-> "cancelled", wake |-> 0]]
            /\ cleanup_task' = None
       ELSE UNCHANGED <<tasks, cleanup_task>>
    /\ UNCHANGED <<server_vars, client_vars, now, files, http_gets, calls, dl_log, conv, config_self_id, last_pass>>

\* _clean_old_files without its except clause: an unlink that raises ends
\* the task
_clean_old_files_no_except ==
    \E id \in DOMAIN tasks :
        /\ \/ tasks[id].state = "pending"
           \/ tasks[id].state = "sleeping" /\ now >= tasks[id].wake
        /\ \E order \in Orders(DOMAIN files), busy \in SUBSET DOMAIN files :
            LET r == clean_pass(order, 1, files, busy, now)
            IN  /\ files' = r.dir
                /\ last_pass' = Some([task |-> id, exc |-> r.exc])
                /\ tasks' = [tasks EXCEPT ![id] =
                               IF r.exc # None
                               THEN [state |-> "failed", wake |-> 0]
                               ELSE [state |-> "sleeping",
                                     wake |-> now + SweepSleepTicks]]
        /\ UNCHANGED <<server_vars, client_vars, now, http_gets, calls, dl_log, conv, config_self_id, cleanup_task>>

\* FileManager._clean_old_files: a task that was just created, or whose sleep
\* is over, runs one pass of the loop and sleeps again
_clean_old_files ==
    \E id \in DOMAIN tasks :
        /\ \/ tasks[id].state = "pending"
           \/ tasks[id].state = "sleeping" /\ now >= tasks[id].wake
        /\ \E order \in Orders(DOMAIN files), busy \in SUBSET DOMAIN files :
            LET r == clean_pass(order, 1, files, busy, now)
            IN  /\ files' = r.dir
                /\ last_pass' = Some([task |-> id, exc |-> r.exc])
        /\ tasks' = [tasks EXCEPT ![id] = [state |-> "sleeping",
                                           wake |-> now + SweepSleepTicks]]
        /\ UNCHANGED <<server_vars, client_vars, now, http_gets, calls, dl_log, conv, config_self_id, cleanup_task>>

-----------------------------------------------------------------------------
(* The transport endpoints: server.py *)

\* the events the endpoints are given: a private text, a group text, an image
\* to fetch and an event of an unknown type
ServerMessages ==
    {m \in Messages :
        /\ m.content = Hello /\ m.xml = <<>> /\ m.sender = Alice
        /\ m.file_name = None
        /\ \/ m.type = TEXT /\ m.file_url = None /\ ~m.is_group /\ m.roomid = None
           \/ m.type = TEXT /\ m.is_group /\ m.roomid = Some(Room)
           \/ m.type = IMAGE /\ m.file_url = Some(Url1)
           \/ m.type \in UnknownTypes /\ m.file_url = None /\ ~m.is_group
              /\ m.roomid = None}

\* what arrives on the wire: a body that decodes into a WCFMessage, or one
\* that does not (None)
WireEvents == {None} \cup {Some(m) : m \in ServerMessages}

\* what the OneBot HTTP server does to a POST /send_msg
PostOutcomes ==
    {[net |-> "error", status |-> 0], [net |-> "ok", status |-> 200],
     [net |-> "ok", status |-> 500]}

\* an event taken by an endpoint, about to be converted
NewReq(endpoint, msg) == [NoReq EXCEPT !.pc = "normalizing", !.endpoint = endpoint,
                                       !.msg = Some(msg)]

\* an event whose body did not decode: the endpoint is done with it
Undecoded(endpoint, status) ==
    [NoReq EXCEPT !.pc = "done", !.endpoint = endpoint, !.response = status]

\* MessageConverter.wcf_to_onebot as its caller sees it: whatever is raised
\* inside its try block (raised) is logged and raised again
normalize(msg, fetched, t, stored, raised) ==
    IF raised THEN [exc |-> Some(<<"conversion failed">>), val |-> None]
    ELSE wcf_to_onebot(msg, fetched, t, stored)

\* the JSON body of POST /send_msg
send_msg_json(onebot_msg) ==
    [message_type |-> onebot_msg.message_type,
     user_id |-> IF onebot_msg.message_type = "private"
                 THEN Some(onebot_msg.user_id) ELSE None,
     group_id |-> IF onebot_msg.message_type = "group"
                  THEN onebot_msg.group_id ELSE None,
     message |-> onebot_msg.message]

\* startup_event starting the sweep before the identity is fetched
startup_event_sweep_first ==
    /\ server.state = "created"
    /\ \E logged_in \in BOOLEAN, wxid \in {None, Some(BotWxid)} :
        LET ok == logged_in /\ Truthy(wxid)
        IN  /\ config_self_id' = IF ok THEN wxid ELSE config_self_id
            /\ server' = [server EXCEPT
                             !.state = IF ok THEN "started" ELSE "failed",
                             !.boot = Some([logged_in |-> logged_in, wxid |-> wxid])]
            /\ IF cleanup_task = None
               THEN /\ tasks' = Append(tasks, [state |-> "pending", wake |-> 0])
                    /\ cleanup_task' = Some(Len(tasks) + 1)
               ELSE UNCHANGED <<tasks, cleanup_task>>
    /\ UNCHANGED <<now, files, http_gets, calls, dl_log, conv, last_pass, req,
                   client_vars>>

\* startup_event: init_self_id asks the upstream client for the login state
\* and the wxid and stores the wxid, or raises when either is missing; then
\* start_cleanup, in the running loop.  An exception fails the startup.
startup_event ==
    /\ server.state = "created"
    /\ \E logged_in \in BOOLEAN, wxid \in {None, Some(BotWxid)} :
        LET ok == logged_in /\ Truthy(wxid)
        IN  /\ config_self_id' = IF ok THEN wxid ELSE config_self_id
            /\ server' = [server EXCEPT
                             !.state = IF ok THEN "started" ELSE "failed",
                             !.boot = Some([logged_in |-> logged_in, wxid |-> wxid])]
            /\ IF ok /\ cleanup_task = None
               THEN /\ tasks' = Append(tasks, [state |-> "pending", wake |-> 0])
                    /\ cleanup_task' = Some(Len(tasks) + 1)
               ELSE UNCHANGED <<tasks, cleanup_task>>
    /\ UNCHANGED <<now, files, http_gets, calls, dl_log, conv, last_pass, req,
                   client_vars>>

\* shutdown_event: stop_cleanup, and the HTTP client is closed
shutdown_event ==
    /\ server.state = "started"
    /\ req = NoReq
    /\ server' = [server EXCEPT !.state = "stopped", !.ws = "closed"]
    /\ IF cleanup_task # None
       THEN /\ tasks' = [tasks EXCEPT ![cleanup_task[1]] =
                                      [state |-> "cancelled", wake |-> 0]]
            /\ cleanup_task' = None
       ELSE UNCHANGED <<tasks, cleanup_task>>
    /\ UNCHANGED <<now, files, http_gets, calls, dl_log, conv, config_self_id,
                   last_pass, req, client_vars>>

\* an event may be taken: the application runs, no other event is in hand,
\* and the bound on the fetches is kept
MayTake(msg) ==
    /\ server.state = "started"
    /\ req = NoReq
    /\ NeedsFetch(msg) => http_gets < MaxFetches

\* receive_message: POST /message with a body the framework has decoded, up
\* to the call of wcf_to_onebot
receive_message ==
    /\ \E msg \in ServerMessages :
        /\ MayTake(msg)
        /\ req' = NewReq("message", msg)
    /\ UNCHANGED <<now, files, http_gets, calls, dl_log, conv, config_self_id,
                   cleanup_task, tasks, last_pass, server, client_vars>>

\* handle_webhook: POST /webhook; a body that does not decode is answered
\* with status 500, any other is handed to receive_message
handle_webhook ==
    /\ server.state = "started"
    /\ req = NoReq
    /\ \E data \in WireEvents :
        IF data = None
        THEN req' = Undecoded("webhook", Some(500))
        ELSE /\ MayTake(data[1])
             /\ req' = NewReq("webhook", data[1])
    /\ UNCHANGED <<now, files, http_gets, calls, dl_log, conv, config_self_id,
                   cleanup_task, tasks, last_pass, server, client_vars>>

\* websocket_endpoint: a peer connects to /ws and is accepted (or accept
\* raises); on the open socket a text frame arrives, which is skipped when
\* it does not decode and converted otherwise; or receive_text raises, which
\* ends the loop
websocket_endpoint ==
    /\ server.state = "started"
    /\ req = NoReq
    /\ \/ /\ server.ws = "closed"
          /\ \E accepted \in BOOLEAN :
                server' = [server EXCEPT !.ws = IF accepted THEN "open" ELSE "closed"]
          /\ UNCHANGED req
       \/ /\ server.ws = "open"
          /\ \E data \in WireEvents :
                IF data = None
                THEN req' = Undecoded("ws", None)
                ELSE /\ MayTake(data[1])
                     /\ req' = NewReq("ws", data[1])
          /\ UNCHANGED server
       \/ /\ server.ws = "open"
          /\ server' = [server EXCEPT !.ws = "closed"]
          /\ UNCHANGED req
    /\ UNCHANGED <<now, files, http_gets, calls, dl_log, conv, config_self_id,
                   cleanup_task, tasks, last_pass, client_vars>>

\* wcf_to_onebot returns or raises in the endpoint that awaits it (with the
\* download it made).  When it raised, /message and /webhook answer with
\* status 500 and /ws logs the error and goes on to the next frame;
\* otherwise the endpoint posts the event to /send_msg.
Normalized ==
    /\ req.pc = "normalizing"
    /\ \E raised \in BOOLEAN, out \in Outcomes :
        LET msg == req.msg[1]
            d == IF NeedsFetch(msg)
                 THEN download_file(msg.file_url[1], FetchName(msg), out, now, files)
                 ELSE [exc |-> None, val |-> None, dir |-> files]
            fetched == IF NeedsFetch(msg) THEN [exc |-> d.exc, val |-> d.val]
                       ELSE NotFetched
            r == normalize(msg, fetched, now, config_self_id, raised)
        IN  /\ files' = d.dir
            /\ http_gets' = IF NeedsFetch(msg) THEN http_gets + 1 ELSE http_gets
            /\ req' = IF r.exc # None
                      THEN [req EXCEPT
                               !.pc = "done",
                               !.norm_calls = @ + 1,
                               !.norm_failed = TRUE,
                               !.response = IF req.endpoint = "ws" THEN None
                                            ELSE Some(500)]
                      ELSE [req EXCEPT
                               !.pc = "forwarding",
                               !.norm_calls = @ + 1,
                               !.posts = @ + 1,
                               !.posted = Some(send_msg_json(r.val[1]))]
    /\ UNCHANGED <<now, calls, dl_log, conv, config_self_id, cleanup_task, tasks,
                   last_pass, server, client_vars>>

\* onebot_client.post returns or raises in the endpoint that awaits it: a
\* failure (the request fails, or raise_for_status raises) is answered with
\* status 500 by /message and /webhook and logged by /ws
Forwarded ==
    /\ req.pc = "forwarding"
    /\ \E post \in PostOutcomes :
        LET failed == post.net # "ok" \/ ~is_success(post.status)
        IN  req' = [req EXCEPT
                       !.pc = "done",
                       !.fwd_failed = failed,
                       !.response = IF req.endpoint = "ws" THEN None
                                    ELSE IF failed THEN Some(500) ELSE Some(200)]
    /\ UNCHANGED <<now, files, http_gets, calls, dl_log, conv, config_self_id,
                   cleanup_task, tasks, last_pass, server, client_vars>>

\* the endpoint has returned: the response, if any, goes to the sender
Responded ==
    /\ req.pc = "done"
    /\ req' = NoReq
    /\ UNCHANGED <<now, files, http_gets, calls, dl_log, conv, config_self_id,
                   cleanup_task, tasks, last_pass, server, client_vars>>

-----------------------------------------------------------------------------
(* The forwarding client: onebot_client.py *)

\* connect without the return on a missing self_id
connect_begin_unchecked(c, stored) ==
    LET sid == IF ~Truthy(c.self_id) THEN Config_self_id(stored) ELSE c.self_id
    IN  [ob |-> [c EXCEPT !.self_id = sid,
                          !.session = IF @ = "none" THEN "open" ELSE @],
         suspended |-> TRUE]

\* OneBotClient.connect up to its suspension in ws_connect: the self_id is
\* taken from the configuration when the client has none, and without one
\* the call returns False (suspended is FALSE); else the session is created
\* when there is none
connect_begin(c, stored) ==
    LET sid == IF ~Truthy(c.self_id) THEN Config_self_id(stored) ELSE c.self_id
    IN  IF ~Truthy(sid)
        THEN [ob |-> [c EXCEPT !.self_id = sid], suspended |-> FALSE]
        ELSE [ob |-> [c EXCEPT !.self_id = sid,
                               !.session = IF @ = "none" THEN "open" ELSE @],
              suspended |-> TRUE]

\* ws_connect succeeds when the server accepts and the session is not closed
ws_connect_ok(c) == c.up /\ c.session = "open"

\* OneBotClient.connect from the point where ws_connect returns (ok) or
\* raises: the new socket and a new heartbeat task are kept, or connected is
\* reset
connect_end(c, ok) ==
    IF ok
    THEN [c EXCEPT !.ws = "open", !.connected = TRUE,
                   !.heartbeats = IF @ < MaxHeartbeats THEN @ + 1 ELSE @,
                   !.hb_held = "live"]
    ELSE [c EXCEPT !.connected = FALSE]

\* the states of a _reconnect_loop task that is not done
RunningLoop == {"created", "connecting", "sleeping"}

\* asyncio.create_task(self._reconnect_loop()) assigned to _reconnect_task:
\* a task held before runs on if it was not done
create_reconnect_task(c) ==
    [c EXCEPT !.orphans = IF c.reconnect \in RunningLoop /\ @ < MaxLoops
                          THEN @ + 1 ELSE @,
              !.reconnect = "created"]

\* reconnect with no condition: every call creates a task
reconnect_task_unguarded(c) == create_reconnect_task(c)

\* OneBotClient.reconnect: a _reconnect_loop task is created unless one is
\* held that is not done
reconnect_task(c) ==
    IF c.reconnect \in {"none", "done"} THEN create_reconnect_task(c) ELSE c

\* the condition of send_message: not connected, no socket or a closed one
found_closed(c) == ~c.connected \/ c.ws # "open"

\* OneBotClient.connect is called on the client
connect ==
    /\ ob.connects < MaxConnects
    /\ LET b == connect_begin(ob, config_self_id)
       IN  ob' = IF b.suspended
                 THEN [b.ob EXCEPT !.connects = @ + 1, !.last = "connecting",
                                   !.after_close = FALSE]
                 ELSE [b.ob EXCEPT !.last = "connect_refused",
                                   !.after_close = FALSE]
    /\ UNCHANGED <<now, files, http_gets, calls, dl_log, conv, config_self_id,
                   cleanup_task, tasks, last_pass, server_vars>>

\* ws_connect returns or raises in a connect call made on the client
connect_returns ==
    /\ ob.connects > 0
    /\ LET ok == ws_connect_ok(ob)
       IN  ob' = [connect_end(ob, ok) EXCEPT
                     !.connects = @ - 1,
                     !.last = IF ok THEN "connected" ELSE "connect_failed"]
    /\ UNCHANGED <<now, files, http_gets, calls, dl_log, conv, config_self_id,
                   cleanup_task, tasks, last_pass, server_vars>>

\* OneBotClient.reconnect is called on the client
reconnect ==
    /\ ob' = [reconnect_task(ob) EXCEPT !.last = "reconnect", !.after_close = FALSE]
    /\ UNCHANGED <<now, files, http_gets, calls, dl_log, conv, config_self_id,
                   cleanup_task, tasks, last_pass, server_vars>>

\* OneBotClient._reconnect_loop, the task: started, or woken from its sleep,
\* it ends when the client is connected and calls connect otherwise; when
\* connect returns it ends on True and sleeps on False
_reconnect_loop ==
    /\ \/ /\ ob.reconnect \in {"created", "sleeping"}
          /\ IF ob.connected
             THEN ob' = [ob EXCEPT !.reconnect = "done", !.last = "reconnect_ended"]
             ELSE LET b == connect_begin(ob, config_self_id)
                  IN  ob' = IF b.suspended
                            THEN [b.ob EXCEPT !.reconnect = "connecting",
                                              !.last = "connecting"]
                            ELSE [b.ob EXCEPT !.reconnect = "sleeping",
                                              !.last = "connect_refused"]
       \/ /\ ob.reconnect = "connecting"
          /\ LET ok == ws_connect_ok(ob)
             IN  ob' = [connect_end(ob, ok) EXCEPT
                           !.reconnect = IF ok THEN "done" ELSE "sleeping",
                           !.last = IF ok THEN "connected" ELSE "connect_failed"]
    /\ UNCHANGED <<now, files, http_gets, calls, dl_log, conv, config_self_id,
                   cleanup_task, tasks, last_pass, server_vars>>

\* OneBotClient.close: the socket and the session are closed, connected is
\* reset and the heartbeat task that is held is cancelled
close ==
    /\ ob' = [ob EXCEPT
                 !.ws = IF @ = "none" THEN "none" ELSE "closed",
                 !.session = IF @ = "none" THEN "none" ELSE "closed",
                 !.connected = FALSE,
                 !.heartbeats = IF ob.hb_held = "live" THEN @ - 1 ELSE @,
                 !.hb_held = IF @ = "live" THEN "cancelled" ELSE @,
                 !.last = "closed", !.after_close = TRUE]
    /\ UNCHANGED <<now, files, http_gets, calls, dl_log, conv, config_self_id,
                   cleanup_task, tasks, last_pass, server_vars>>

\* OneBotClient.send_message up to its suspension in send_json: when the
\* connection is found closed, reconnect is called, and False is returned
\* if connected is not set
send_message ==
    /\ LET c == IF found_closed(ob) THEN reconnect_task(ob) ELSE ob
       IN  IF ~c.connected
           THEN ob' = [c EXCEPT !.last = "send_refused", !.after_close = FALSE]
           ELSE /\ ob.sends < MaxSends
                /\ ob' = [c EXCEPT !.sends = @ + 1, !.after_close = FALSE,
                                   !.last = IF found_closed(ob) THEN "send_found_closed"
                                            ELSE "sending"]
    /\ UNCHANGED <<now, files, http_gets, calls, dl_log, conv, config_self_id,
                   cleanup_task, tasks, last_pass, server_vars>>

\* send_json returns or raises in a send_message call; it raises when the
\* socket is not open: then reconnect is called and False is returned,
\* with connected as it was
send_returns ==
    /\ ob.sends > 0
    /\ ob' = IF ob.ws # "open"
             THEN [reconnect_task(ob) EXCEPT !.sends = @ - 1, !.last = "send_failed"]
             ELSE [ob EXCEPT !.sends = @ - 1, !.last = "sent"]
    /\ UNCHANGED <<now, files, http_gets, calls, dl_log, conv, config_self_id,
                   cleanup_task, tasks, last_pass, server_vars>>

\* OneBotClient.receive_message: None when not connected or when
\* receive_json raises
OneBotClient_receive_message ==
    /\ ob' = [ob EXCEPT !.last = IF ~ob.connected THEN "receive_refused"
                                 ELSE IF ob.ws # "open" THEN "receive_failed"
                                 ELSE "received"]
    /\ UNCHANGED <<now, files, http_gets, calls, dl_log, conv, config_self_id,
                   cleanup_task, tasks, last_pass, server_vars>>

\* OneBotClient.start_heartbeat, a task: created, or woken from its sleep,
\* it sends a heartbeat when connected is set, and resets connected when
\* send_json raises; otherwise it only sleeps again
start_heartbeat ==
    /\ ob.heartbeats > 0
    /\ ob.connected
    /\ ob' = IF ob.ws = "open" THEN [ob EXCEPT !.last = "heartbeat_sent"]
             ELSE [ob EXCEPT !.connected = FALSE, !.last = "heartbeat_failed"]
    /\ UNCHANGED <<now, files, http_gets, calls, dl_log, conv, config_self_id,
                   cleanup_task, tasks, last_pass, server_vars>>

\* the OneBot server closes the socket, or stops or starts to accept
\* connections (a server that stops closes the socket)
OneBotServer ==
    /\ \/ /\ ob.ws = "open"
          /\ ob' = [ob EXCEPT !.ws = "closed", !.last = "server"]
       \/ ob' = [ob EXCEPT !.up = ~@,
                           !.ws = IF ob.up /\ @ = "open" THEN "closed" ELSE @,
                           !.last = "server"]
    /\ UNCHANGED <<now, files, http_gets, calls, dl_log, conv, config_self_id,
                   cleanup_task, tasks, last_pass, server_vars>>

\* the converter
NextConv == Tick \/ init_self_id \/ Convert \/ DownloadReturns \/ Return
SpecConv == Init /\ [][NextConv]_vars

\* the media cache
NextCache ==
    \/ Tick
    \/ TickLong
    \/ Download
    \/ DownloadReturns
    \/ start_cleanup
    \/ stop_cleanup
    \/ _clean_old_files
SpecCache == Init /\ [][NextCache]_vars

\* the transport endpoints
NextServer ==
    \/ startup_event
    \/ shutdown_event
    \/ receive_message
    \/ handle_webhook
    \/ websocket_endpoint
    \/ Normalized
    \/ Forwarded
    \/ Responded
    \/ Tick
SpecServer == Init /\ [][NextServer]_vars

\* the forwarding client
NextClient ==
    \/ init_self_id
    \/ connect
    \/ connect_returns
    \/ reconnect
    \/ _reconnect_loop
    \/ close
    \/ send_message
    \/ send_returns
    \/ OneBotClient_receive_message
    \/ start_heartbeat
    \/ OneBotServer
SpecClient == Init /\ [][NextClient]_vars

\* the event loop runs every task that is ready: the reconnect loop, the
\* heartbeats and the connect and send calls in flight go on; calls on the
\* client, and what the server does, come as they may
SpecClientFair ==
    /\ SpecClient
    /\ WF_vars(_reconnect_loop)
    /\ WF_vars(start_heartbeat)
    /\ WF_vars(connect_returns)
    /\ WF_vars(send_returns)

Next == NextConv \/ NextCache \/ NextServer \/ NextClient
Spec == Init /\ [][Next]_vars

-----------------------------------------------------------------------------
(* The claims *)

\* a call of wcf_to_onebot has returned or raised
Done == conv.pc = "done"
\* the event it was given, as it is afterwards
Event == conv.msg[1]
\* what it returned (val) or raised (exc)
Result == conv.result[1]
\* the OneBotMessage it returned
Outbound == Result.val[1]
Returned == Done /\ Result.exc = None /\ Result.val # None

\* the fields of a complete OneBotMessage
OneBotFields ==
    {"post_type", "time", "self_id", "message_type", "sub_type", "message_id",
     "user_id", "message", "raw_message", "font", "sender", "group_id",
     "message_seq", "anonymous"}

\* a step that is one pass of _clean_old_files: only a pass puts a task to sleep
PassStep ==
    \E id \in DOMAIN tasks : tasks'[id] # tasks[id] /\ tasks'[id].state = "sleeping"

\* C1: two download_file calls with the same url and name, the second made
\* after the first returned and while the file of the first is still in the
\* cache and within the retention window, return the same path, and the
\* second issues no HTTP GET.
C1_FetchIdempotent ==
    \A i, j \in DOMAIN dl_log :
        ( /\ i < j
          /\ dl_log[j].after >= i
          /\ dl_log[j].url = dl_log[i].url
          /\ dl_log[j].filename = dl_log[i].filename
          /\ dl_log[i].result # None
          /\ _is_file_valid(dl_log[i].result[1], files, now) )
        => /\ dl_log[j].result = dl_log[i].result
           /\ dl_log[j].gets = 0

\* C2: every entry of the cache directory that is older than the retention
\* window when a pass of _clean_old_files begins is absent when the pass
\* ends.  (Stated leniently: the entry whose own unlink raised is exempt.)
C2_ExpiredRemoved ==
    [][ PassStep =>
        \A f \in DOMAIN files :
            ( /\ now - files[f].mtime > RetentionTicks
              /\ last_pass'[1].exc # Some(f) )
            => f \notin DOMAIN files' ]_vars

\* C3: an image, voice, video or file event whose download failed, or that
\* carries no attachment URL, is still converted: wcf_to_onebot raises
\* nothing and returns a complete OneBotMessage whose message is the failure
\* placeholder of the kind.
C3_FetchFailureDowngrades ==
    ( /\ Done
      /\ Event.type \in {IMAGE, VOICE, VIDEO, FILE}
      /\ (~Truthy(Event.file_url) \/ conv.fetched.val = None) )
    => /\ Returned
       /\ DOMAIN Outbound = OneBotFields
       /\ Outbound.user_id = _convert_sender_id(Some(Event.sender))
       /\ Outbound.raw_message = Event.content
       /\ Outbound.message =
            CASE Event.type = IMAGE -> <<"[image download failed]">>
              [] Event.type = VOICE -> <<"[voice download failed]">>
              [] Event.type = VIDEO -> <<"[video download failed]">>
              [] Event.type = FILE -> <<"[file download failed]">>

\* C3, witnessed: an image event whose download was attempted and failed came
\* back with the image placeholder
C3_Witness ==
    /\ Returned
    /\ Event.type = IMAGE
    /\ Truthy(Event.file_url)
    /\ http_gets = 1
    /\ conv.fetched.val = None
    /\ Outbound.message = <<"[image download failed]">>

\* C4: an event of type code 49 whose markup holds a title, a description and
\* a url is rendered as the app summary of the three, whatever its attachment
\* fields are.
C4_AppRendered ==
    ( /\ Done
      /\ Event.type = 49
      /\ SearchTag(Event.xml, "<title>", "</title>") # None
      /\ SearchTag(Event.xml, "<des>", "</des>") # None
      /\ SearchTag(Event.xml, "<url>", "</url>") # None )
    => /\ Returned
       /\ Outbound.message = AppSummary(_extract_app_message_info(Event.xml))

\* C5: an event that is no group event is converted with message_type
\* "private" and no group_id; a group event with a room id is converted with
\* message_type "group" and the group_id derived from the room id.
C5_Scope ==
    Done =>
        /\ Returned
        /\ ~Event.is_group =>
              Outbound.message_type = "private" /\ Outbound.group_id = None
        /\ (Event.is_group /\ Truthy(Event.roomid)) =>
              /\ Outbound.message_type = "group"
              /\ Outbound.group_id = Some(_convert_sender_id(Event.roomid))

\* C5, witnessed: a group event of room "room" came back with the identifier
\* int(md5("room").hexdigest()[:8], 16) = 0xfef2576d as its group_id
C5_Witness ==
    /\ Returned
    /\ Event.is_group
    /\ Event.roomid = Some(Room)
    /\ Event.sender = Alice
    /\ Outbound.message_type = "group"
    /\ Outbound.group_id = Some(<<65266, 22381>>)

\* the inline mention tag of a derived identifier occurs in the message
HasMentionTag(message, id) ==
    \E k \in 1..(Len(message) - 1) :
        message[k] = "[CQ:at,qq=" /\ message[k + 1] = ToString(id)

\* C6: a text event whose markup lists mentioned identities has them stored,
\* in order, in its mentioned field (at_users), and the message carries a
\* mention tag with the derived identifier of each.
C6_MentionsExtracted ==
    ( /\ Done
      /\ Event.type = TEXT
      /\ _extract_at_users(Event.xml) # <<>> )
    => /\ Returned
       /\ Event.at_users = _extract_at_users(Event.xml)
       /\ \A k \in DOMAIN Event.at_users :
              HasMentionTag(Outbound.message,
                            _convert_sender_id(Some(Event.at_users[k])))

\* C7: a text event with no mentions is converted with message and
\* raw_message both equal to its content.
C7_TextUnchanged ==
    ( /\ Done
      /\ Event.type = TEXT
      /\ Event.at_users = <<>>
      /\ _extract_at_users(Event.xml) = <<>> )
    => /\ Returned
       /\ Outbound.message = Event.content
       /\ Outbound.raw_message = Event.content

\* C7, witnessed: the text "hello" with empty markup came back as "hello"
C7_Witness ==
    /\ Returned
    /\ Event.type = TEXT
    /\ Event.at_users = <<>>
    /\ Event.xml = <<>>
    /\ Event.content = <<"hello">>
    /\ Outbound.message = <<"hello">>
    /\ Outbound.raw_message = <<"hello">>

\* C9: an event whose type code is no member of WeChatMsgType is converted
\* without an exception into a complete OneBotMessage whose message is a
\* placeholder that names the type code.
C9_UnknownKind ==
    (Done /\ Event.type \notin {1, 3, 34, 43, 47, 48, 49, 10000})
    => /\ Returned
       /\ DOMAIN Outbound = OneBotFields
       /\ Outbound.message =
            <<"[message parse failed: ", ToString(Event.type),
              " is not a valid WeChatMsgType", "]">>

\* C9, witnessed: an event of type code 999 came back with the placeholder
C9_Witness ==
    /\ Returned
    /\ Event.type = 999
    /\ Outbound.message[2] = "999"
    /\ Outbound.raw_message = Event.content

\* C10: an emoji event (type code 47) is rendered as a face tag that carries
\* the content of the event as its identifier.
C10_EmojiFace ==
    (Done /\ Event.type = 47)
    => /\ Returned
       /\ Outbound.message = <<"[CQ:face,id=">> \o Event.content \o <<"]">>

\* the sweep tasks that are alive: created and neither cancelled nor ended
LiveTasks == {i \in DOMAIN tasks : tasks[i].state \in {"pending", "sleeping"}}

\* C11: a FileManager is constructed with no sweep task; whatever start_cleanup
\* and stop_cleanup calls follow, at most one sweep task is alive, and it is
\* the one _cleanup_task holds; a task is created only when none is held, so a
\* second start_cleanup in a row creates no second task.
C11_SweepLifecycle ==
    /\ tasks = <<>>
    /\ cleanup_task = None
    /\ [](/\ Cardinality(LiveTasks) <= 1
          /\ cleanup_task # None => LiveTasks = {cleanup_task[1]})
    /\ [][Len(tasks') > Len(tasks) => (cleanup_task = None /\ LiveTasks = {})]_vars

\* C11, witnessed: start, stop and start again left the first task cancelled
\* and the second alone alive
C11_Witness ==
    /\ Len(tasks) = 2
    /\ tasks[1].state = "cancelled"
    /\ LiveTasks = {2}
    /\ cleanup_task = Some(2)

\* C16: any two download_file calls that succeeded returned different paths.
C16_PathsUnique ==
    \A i, j \in DOMAIN dl_log :
        (i # j /\ dl_log[i].result # None /\ dl_log[j].result # None)
        => dl_log[i].result # dl_log[j].result

C18_SweepSurvivesFailure ==
    (last_pass # None /\ last_pass[1].exc # None)
    => LET id == last_pass[1].task
       IN  \/ /\ tasks[id].state = "sleeping"
              /\ tasks[id].wake - SweepSleepTicks <= now
              /\ now >= tasks[id].wake => ENABLED _clean_old_files
           \/ /\ tasks[id].state = "cancelled"
              /\ cleanup_task # Some(id)

\* C18, witnessed: a task whose pass failed on an entry has slept its
\* interval and is due for its next pass
C18_Witness ==
    /\ last_pass # None
    /\ last_pass[1].exc # None
    /\ tasks[last_pass[1].task].state = "sleeping"
    /\ now >= tasks[last_pass[1].task].wake
    /\ last_pass[1].exc[1] \in DOMAIN files

\* C19: while no sweep is started (from stop_cleanup to the next
\* start_cleanup, and before the first), no pass runs and no file leaves the
\* directory.
C19_StoppedSweepIdle ==
    [][ (cleanup_task = None /\ cleanup_task' = None)
        => (tasks' = tasks /\ DOMAIN files \subseteq DOMAIN files') ]_vars

\* C19, witnessed: a sweep that had run a pass was stopped in its sleep; the
\* time of its wake-up has passed and an expired file is still there
C19_Witness ==
    /\ cleanup_task = None
    /\ last_pass # None
    /\ tasks[last_pass[1].task].state = "cancelled"
    /\ \E f \in DOMAIN files : ~_is_file_valid(f, files, now)

\* C12: for an event in the hands of an endpoint, wcf_to_onebot is called at
\* most once; and when that call raised, the endpoint is done after the one
\* call and has answered its sender with an error status.
C12_NormalizedOnceErrorSurfaced ==
    /\ req.norm_calls <= 1
    /\ (req.pc = "done" /\ req.norm_failed)
       => /\ req.norm_calls = 1
          /\ req.response # None
          /\ req.response[1] >= 400

\* C13: when the POST of a converted event to /send_msg failed, the endpoint
\* does not answer the sender of the event with an error status, and the
\* event was converted once.
C13_ForwardFailureNotReported ==
    (req.pc = "done" /\ req.fwd_failed)
    => /\ req.norm_calls = 1
       /\ req.response = None \/ req.response[1] < 400

\* the upstream client reported a login and a wxid at startup
BootOk == server.boot # None /\ server.boot[1].logged_in /\ Truthy(server.boot[1].wxid)

\* C20: the application has started, and a sweep task exists, only if the
\* upstream client reported a login and a wxid and that wxid is stored in
\* the configuration; when the client reported no login or no wxid, the
\* startup has failed and there is no sweep task.
C20_StartupOrdering ==
    /\ (server.state \in {"started", "stopped"} \/ tasks # <<>> \/ cleanup_task # None)
       => (BootOk /\ config_self_id = server.boot[1].wxid)
    /\ (server.boot # None /\ ~BootOk)
       => (server.state = "failed" /\ tasks = <<>> /\ cleanup_task = None)

\* C20, witnessed: the application started with the wxid of the bot stored
\* and the sweep task created
C20_Witness ==
    /\ server.state = "started"
    /\ config_self_id = Some(BotWxid)
    /\ cleanup_task = Some(1)
    /\ tasks[1].state = "pending"

\* the client's state is Connected: connected is set on an open socket
Connected == ob.connected /\ ob.ws = "open"

\* a connection attempt of the client would be accepted: the server accepts
\* connections, the bridge knows its identity and the client was not closed
Accepting == ob.up /\ Truthy(config_self_id) /\ ob.session # "closed"

\* send_message found the connection closed: connected was not set and it
\* returned False, or the socket was missing or closed and it went on to
\* the send
FoundClosed == ob.last \in {"send_refused", "send_found_closed"}

\* C14: whenever send_message finds the connection closed (connected not
\* set, no socket, or a closed socket), a reconnect loop is triggered that
\* goes on attempting to connect, so that, if from some point on the server
\* accepts the client's connections, the client is eventually Connected
\* again
C14_ReconnectsEventually ==
    (<>[]Accepting) => [](FoundClosed => <>Connected)

\* C15: a message send or a heartbeat send that fails leaves the client
\* Disconnected (connected = false), and a heartbeat is sent, with or
\* without success, only from a state where connected is set
C15_FailureDisconnects ==
    /\ [](ob.last \in {"send_failed", "heartbeat_failed"} => ~ob.connected)
    /\ [][(ob' # ob /\ ob'.last \in {"heartbeat_sent", "heartbeat_failed"})
            => ob.connected]_vars

\* C21: in every reachable state at most one start_heartbeat task of the
\* client is alive, whatever connect, heartbeat failure, reconnect,
\* send_message and close did before
C21_OneHeartbeat == ob.heartbeats <= 1

\* the _reconnect_loop tasks of the client that are running
RunningLoops == (IF ob.reconnect \in RunningLoop THEN 1 ELSE 0) + ob.orphans

\* C22: in every reachable state at most one reconnect loop of the client
\* is running: send_message calls, in flight together, that find the
\* connection closed or whose send fails start no second loop while one runs
C22_OneReconnectLoop == RunningLoops <= 1

\* two send_message calls are in flight on a closed socket, and the send
\* that found it closed met a reconnect loop that was at its attempt
C22_Witness ==
    /\ ob.sends = 2
    /\ ob.last = "send_found_closed"
    /\ ob.reconnect = "connecting"

\* C23: once close has completed, and as long as connect, send_message (or
\* reconnect) are not called again, the client stays disconnected: no
\* reconnect loop and no heartbeat opens a socket or sets connected
C23_ClosedStaysClosed == ob.after_close => (~ob.connected /\ ob.ws # "open")

\* C24: the client is never connected without a self identity: in every
\* reachable state connected = true implies that the client's self_id is
\* the non-empty identity the bridge was initialized with; and a connect
\* attempted while the bridge has no identity returns False and opens
\* nothing: socket, session, connected and the attempts in flight are as before
C24_ConnectedHasIdentity ==
    /\ [](ob.connected => (Truthy(ob.self_id) /\ ob.self_id = config_self_id))
    /\ [][(/\ ob' # ob
           /\ ob'.last \in {"connecting", "connect_refused"}
           /\ ~Truthy(config_self_id))
            => (/\ ob'.last = "connect_refused"
                /\ ob'.ws = ob.ws
                /\ ob'.session = ob.session
                /\ ob'.connected = ob.connected
                /\ ob'.connects = ob.connects
                /\ ob'.reconnect # "connecting")]_vars

\* a connect has succeeded: the client is connected on an open socket under
\* the identity of the bridge
C24_Witness ==
    /\ ob.connected
    /\ ob.last = "connected"
    /\ ob.ws = "open"
    /\ Truthy(config_self_id)

====
